---- MODULE Spec2Model ----
(* Model of the streaming price cache (WSClient), the subscription        *)
(* lifecycle manager (DynamicSubscriber) and the admission controller     *)
(* (ratelimit.Limiter with the gin middlewares) of edibez/priceforagent.  *)
EXTENDS Integers, Sequences, FiniteSets, TLC

(***************************************************************************)
(* Bounds of the model                                                     *)
(***************************************************************************)
\* number of connections that may be dialled successfully
MaxConn == 2
\* number of RecordAccess (OnPairRequested) calls
MaxTasks == 2
\* number of clock advances in the subscription system
MaxTicks == 1
\* number of HTTP requests
MaxReq == 3
\* seconds that pass in the admission controller
MaxSecond == 1
\* the global cap (10000000 in the program), scaled down
GlobalLimit == 3
\* days that pass while usage is recorded
MaxDay == 7
\* number of quote updates the read loop stores
MaxMsgs == 2
\* the half days that pass while usage is counted command by command
MaxHalfDays == 4
\* the calls of IncrementUsage that run command by command
MaxCalls == 2

(***************************************************************************)
(* Program constants                                                       *)
(***************************************************************************)
\* StaleThreshold = 24 * time.Hour, in seconds
StaleThreshold == 86400
\* cardinality of the protected set: len(pairs) < 10, pairs[:10], LRange 0..9
TopN == 10
\* ratelimit.NewLimiter(redisAddr, 2): requests per second and key
Limit == 2
\* Limiter.window = time.Second, in seconds
Window == 1
\* reconnect: make(chan struct{}, 1)
ReconnectCap == 1

Range(s) == {s[i] : i \in 1..Len(s)}

\* instrument codes, "Crypto:ALL:<X>/USDT" written as <X>
defaultTop10 ==
  <<"BTC", "ETH", "BNB", "XRP", "SOL", "DOGE", "ADA", "TRX", "AVAX", "SHIB">>
\* a ranking in which LINK has replaced SHIB
AltTop10 ==
  <<"BTC", "ETH", "BNB", "XRP", "SOL", "DOGE", "ADA", "TRX", "AVAX", "LINK">>
\* a ranking list that is too short, and one that is longer than ten
ShortList == <<"BTC", "ETH", "LINK">>
LongList == AltTop10 \o <<"DOT">>

Codes == Range(defaultTop10) \cup {"LINK", "DOT"}
\* codes that requests ask for
ReqCodes == {"SHIB", "LINK"}
\* lists UpdateTop10 is called with
UpdateLists == {defaultTop10, ShortList, LongList}
\* what the persisted protected list may hold at startup
PersistedLists == {<<>>, ShortList, AltTop10}

\* the redis hash as a function from its fields
EmptyLedger == [c \in {} |-> 0]
HSet(h, field, value) ==
  [f \in DOMAIN h \cup {field} |-> IF f = field THEN value ELSE h[f]]
HDel(h, field) == [f \in DOMAIN h \ {field} |-> h[f]]

ConnIds == 1..MaxConn
Tasks == 1..MaxTasks

VARIABLES
  now,          \* time.Now().Unix()
  conn,         \* WSClient.conn: 0 is nil, n > 0 the n-th dialled connection
  connStatus,   \* transport of each connection: none, open, broken, closed
  done,         \* WSClient.done is closed
  reconnect,    \* number of signals buffered in WSClient.reconnect (cap 1)
  pairs,        \* WSClient.pairs
  readPump,     \* the readPump goroutine started by each Connect
  keepAlive,    \* the keepAlive goroutine started by each Connect
  top10,        \* DynamicSubscriber.top10
  subscribed,   \* DynamicSubscriber.subscribed (codes mapped to true)
  ledger,       \* redis hash DynamicPairsKey: code -> last access
  redisTop10,   \* redis list Top10Key
  mainPc,       \* position of main()
  task,         \* request tasks running OnPairRequested
  prune,        \* the cleanupRoutine goroutine
  upd,          \* the caller of UpdateTop10
  sentOn,       \* history: codes a subscribe request was written for, per connection
  hist,         \* history of the subscription system
  store,        \* the shared counter store (redis): key -> integer
  ttl,          \* expiry time of the keys that have one
  req,          \* the HTTP requests passing through the middlewares
  cache,        \* WSClient.cache: code -> pointer to its PriceData
  res,          \* the request tasks running getPriceWithCache
  heap,         \* the PriceData objects readPump has allocated, by pointer
  rd,           \* a caller of GetCached that reads the quote it was handed
  msg,          \* readPump: the message ReadMessage returned last
  batch         \* a handleBatch request

streamVars == <<now, conn, connStatus, done, reconnect, pairs, readPump, keepAlive,
                top10, subscribed, ledger, redisTop10, mainPc, task, prune, upd,
                sentOn, hist>>

limVars == <<store, ttl, req>>

cacheVars == <<heap, rd, msg>>

resVars == <<cache, res, cacheVars, batch>>

vars == <<streamVars, limVars, resVars>>

\* at is history: the time the call wrote into the ledger
IdleTask == [pc |-> "idle", code |-> "", already |-> FALSE, outcome |-> "", at |-> 0]
\* at and snap are history: the time and the ledger the running sweep read
IdlePrune == [pc |-> "idle", todo |-> {}, cur |-> "", kept |-> FALSE,
              at |-> 0, snap |-> EmptyLedger]

InitStream ==
  /\ now = 0
  /\ conn = 0
  /\ connStatus = [i \in ConnIds |-> "none"]
  /\ done = FALSE
  /\ reconnect = 0
  /\ pairs = <<>>
  /\ readPump = [i \in ConnIds |-> "off"]
  /\ keepAlive = [i \in ConnIds |-> "off"]
  /\ top10 = <<>>
  /\ subscribed = {}
  /\ ledger \in {EmptyLedger, HSet(EmptyLedger, "DOT", 0)}
  /\ redisTop10 \in PersistedLists
  /\ mainPc = "connect"
  /\ task = [t \in Tasks |-> IdleTask]
  /\ prune = IdlePrune
  /\ upd = [pc |-> "idle", list |-> <<>>, short |-> FALSE]
  /\ sentOn = [i \in ConnIds |-> {}]
  /\ hist = [addSends |-> [c \in Codes |-> 0],
             removed |-> {},
             topMarked |-> {},
             discSubs |-> {},
             resub |-> [conn |-> 0, before |-> {}, sent |-> FALSE],
             failedWrite |-> FALSE,
             writers |-> {}]

\* the counter store as a function from its keys
EmptyStore == [k \in {} |-> 0]
ClientKeys == {"k1", "k2"}
Reqs == 1..MaxReq
IdleReq == [pc |-> "idle", key |-> "", g |-> "", gErr |-> FALSE, a |-> "",
            win |-> 0, ord |-> 0, count |-> 0, remaining |-> 0,
            gRemaining |-> 0, status |-> "", incs |-> 0, day |-> 0, at |-> 0]

InitLim ==
  /\ store \in {EmptyStore, [k \in {<<"global">>} |-> GlobalLimit - 1]}
  /\ ttl = EmptyStore
  /\ req = [r \in Reqs |-> IdleReq]

\* hit, fetched and calls are history: what the cache held at the read, how
\* the pull-API fetch ended, the number of OnPairRequested calls made
IdleRes == [pc |-> "idle", code |-> "", source |-> "", hit |-> FALSE,
            fetched |-> "", calls |-> 0]

\* the cache as a function from the codes it holds
EmptyCache == [c \in {} |-> 0]
\* the empty string of a message field is written 0
NoMsg == [decodes |-> FALSE, code |-> "", price |-> 0, ask |-> 0, bid |-> 0]
IdleRd == [pc |-> "idle", code |-> "", ptr |-> 0, price |-> 0, ask |-> 0,
           bid |-> 0, open |-> FALSE]
\* arrival is history: the indexes in the order the results were received
IdleBatch == [pc |-> "idle", pairs |-> <<>>, sent |-> {}, chan |-> <<>>,
              ordered |-> <<>>, errors |-> <<>>, results |-> <<>>,
              arrival |-> <<>>]

InitRes ==
  /\ cache = EmptyCache
  /\ res = [t \in Tasks |-> IdleRes]
  /\ heap = <<>>
  /\ rd = IdleRd
  /\ msg = NoMsg
  /\ batch = IdleBatch

\* the stream system starts with a counter store that is not used
Init ==
  /\ InitStream
  /\ InitLim /\ store = EmptyStore
  /\ InitRes

\* the admission controller starts with the stream system not started
LimInit ==
  /\ InitStream /\ ledger = EmptyLedger /\ redisTop10 = <<>>
  /\ InitLim
  /\ InitRes

(***************************************************************************)
(* WSClient                                                                *)
(***************************************************************************)
UsedConns == {i \in ConnIds : connStatus[i] # "none"}
NextConn == Cardinality(UsedConns) + 1

\* Connect, after a successful Dial: w.conn = conn; go readPump; go keepAlive
Connect(n, ka) ==
  /\ conn' = n
  /\ connStatus' = [connStatus EXCEPT ![n] = "open"]
  /\ readPump' = [readPump EXCEPT ![n] = "running"]
  /\ keepAlive' = [ka EXCEPT ![n] = "select"]

\* conn.WriteJSON succeeds on an open transport only
WriteOK == conn # 0 /\ connStatus[conn] = "open"

\* doSubscribe returns an error: conn is not nil and the write fails
doSubscribeErr == conn # 0 /\ ~WriteOK

\* the subscribe requests on the wire after doSubscribe(codes)
doSubscribe(codes) ==
  IF WriteOK THEN [sentOn EXCEPT ![conn] = @ \cup codes] ELSE sentOn

\* the upstream drops the connection (read and write on it fail from now on)
PeerDrop ==
  /\ conn # 0 /\ connStatus[conn] = "open"
  /\ connStatus' = [connStatus EXCEPT ![conn] = "broken"]
  /\ UNCHANGED <<now, conn, done, reconnect, pairs, readPump, keepAlive, top10,
                 subscribed, ledger, redisTop10, mainPc, task, prune, upd, sentOn, hist>>
  /\ UNCHANGED <<limVars, resVars>>

\* the quote updates the upstream may send as its n-th: price, ask and bid
\* of the n-th update are written n
Updates(n) ==
  {[decodes |-> TRUE, code |-> c, price |-> n, ask |-> n, bid |-> n] : c \in ReqCodes}

\* messages that are no quote update: not decodable as WSPriceUpdate, decoded
\* with an empty code, decoded with an empty price
NonUpdates(n) ==
  {NoMsg, [decodes |-> TRUE, code |-> "", price |-> n, ask |-> n, bid |-> n]}
    \cup {[decodes |-> TRUE, code |-> c, price |-> 0, ask |-> n, bid |-> n] : c \in ReqCodes}

\* (mutant) a read loop that stores every decoded message that has a code
readPump_accepts_anyPrice(m) == m.decodes /\ m.code # ""

\* readPump: json.Unmarshal succeeds and neither update.Code nor
\* update.Price is empty; any other message is skipped with continue
readPump_accepts(m) == m.decodes /\ m.code # "" /\ m.price # 0

\* (mutant) a quote stored without its Market field
readPump_quote_noMarket(m) ==
  [code |-> m.code, price |-> m.price, ask |-> m.ask, bid |-> m.bid, open |-> FALSE]

\* readPump: &PriceData{Code, Price, Ask, Bid, Market: Market{Open: true}}
readPump_quote(m) ==
  [code |-> m.code, price |-> m.price, ask |-> m.ask, bid |-> m.bid, open |-> TRUE]

\* (mutant) an update written into the PriceData the cache already points to
readPump_entry_inPlace(code, fresh) ==
  IF code \in DOMAIN cache THEN cache[code] ELSE fresh

\* readPump: w.cache[update.Code] = &PriceData{...}, the entry points to the
\* object just allocated
readPump_entry(code, fresh) == fresh

\* readPump: ReadMessage returns the next message on the open connection
\* (quote updates come for codes subscribed on it); an accepted update is
\* stored under cacheMu.Lock, any other message is skipped
readPump_message(i, m) ==
  /\ readPump[i] = "running" /\ ~done
  /\ conn # 0 /\ connStatus[conn] = "open"
  /\ Len(heap) < MaxMsgs
  /\ readPump_accepts(m) => m.code \in sentOn[conn]
  /\ msg' = m
  /\ IF readPump_accepts(m)
     THEN LET fresh == Len(heap) + 1
              ptr == readPump_entry(m.code, fresh)
          IN /\ heap' = [Append(heap, readPump_quote(m)) EXCEPT ![ptr] = readPump_quote(m)]
             /\ cache' = HSet(cache, m.code, ptr)
     ELSE UNCHANGED <<cache, heap>>
  /\ UNCHANGED <<streamVars, limVars, res, rd, batch>>

\* (mutant) a lookup that never finds the code
GetCached_ok_never(code) == FALSE

\* GetCached: data, ok := w.cache[code] under cacheMu.RLock
GetCached_ok(code) == code \in DOMAIN cache

\* (mutant) a send that queues every signal
reconnect_send_queued(n) == n + 1

\* select { case w.reconnect <- struct{}{}: default: } on a channel that holds
\* n signals: the signal is buffered when there is room and dropped when the
\* buffer is full; the sender goes on in both cases
reconnect_send(n) == IF n < ReconnectCap THEN n + 1 ELSE n

\* (mutant) a read loop that returns without closing its connection
readPump_deferredClose_none(cs) == cs

\* readPump: defer func() { if w.conn != nil { w.conn.Close() } ... }()
readPump_deferredClose(cs) ==
  IF conn # 0 THEN [cs EXCEPT ![conn] = "closed"] ELSE cs

\* readPump returns (done observed, or ReadMessage failed); its deferred
\* function closes w.conn and signals reconnect without blocking
readPump_exit(i) ==
  /\ readPump[i] = "running"
  /\ done \/ conn = 0 \/ connStatus[conn] # "open"
  /\ readPump' = [readPump EXCEPT ![i] = "exited"]
  /\ connStatus' = readPump_deferredClose(connStatus)
  /\ reconnect' = reconnect_send(reconnect)
  /\ hist' = [hist EXCEPT !.discSubs = subscribed, !.failedWrite = FALSE]
  /\ UNCHANGED <<now, conn, done, pairs, keepAlive, top10, subscribed, ledger,
                 redisTop10, mainPc, task, prune, upd, sentOn>>
  /\ UNCHANGED <<limVars, resVars>>

\* keepAlive: case <-w.done
keepAlive_done(i) ==
  /\ keepAlive[i] = "select" /\ done
  /\ keepAlive' = [keepAlive EXCEPT ![i] = "exited"]
  /\ UNCHANGED <<now, conn, connStatus, done, reconnect, pairs, readPump, top10,
                 subscribed, ledger, redisTop10, mainPc, task, prune, upd, sentOn, hist>>
  /\ UNCHANGED <<limVars, resVars>>

\* keepAlive: case <-w.reconnect, then time.Sleep(1s)
keepAlive_signal(i) ==
  /\ keepAlive[i] = "select" /\ reconnect = 1
  /\ reconnect' = 0
  /\ keepAlive' = [keepAlive EXCEPT ![i] = "connect"]
  /\ hist' = [hist EXCEPT !.failedWrite = FALSE]
  /\ UNCHANGED <<now, conn, connStatus, done, pairs, readPump, top10, subscribed,
                 ledger, redisTop10, mainPc, task, prune, upd, sentOn>>
  /\ UNCHANGED <<limVars, resVars>>

\* keepAlive: case <-ticker.C, a ping is written when w.conn is not nil; the
\* error of WriteMessage is dropped
keepAlive_ping(i) ==
  /\ keepAlive[i] = "select" /\ ~done
  /\ conn # 0
  /\ hist' = [hist EXCEPT !.failedWrite = @ \/ ~WriteOK]
  /\ UNCHANGED <<now, conn, connStatus, done, reconnect, pairs, readPump, keepAlive,
                 top10, subscribed, ledger, redisTop10, mainPc, task, prune, upd, sentOn>>
  /\ UNCHANGED <<limVars, resVars>>

\* keepAlive: w.Connect() in the reconnect branch; on failure sleep 5s and
\* go back to the select
keepAlive_connect(i) ==
  /\ keepAlive[i] = "connect"
  /\ \/ /\ NextConn \in ConnIds
        /\ Connect(NextConn, [keepAlive EXCEPT ![i] = "resub"])
        /\ hist' = [hist EXCEPT !.failedWrite = FALSE]
     \/ /\ keepAlive' = [keepAlive EXCEPT ![i] = "select"]
        /\ UNCHANGED <<conn, connStatus, readPump, hist>>
  /\ UNCHANGED <<now, done, reconnect, pairs, top10, subscribed, ledger, redisTop10,
                 mainPc, task, prune, upd, sentOn>>
  /\ UNCHANGED <<limVars, resVars>>

\* keepAlive: re-subscribe after a successful reconnect
keepAlive_resub(i) ==
  /\ keepAlive[i] = "resub"
  /\ keepAlive' = [keepAlive EXCEPT ![i] = "select"]
  /\ sentOn' = IF Len(pairs) > 0 THEN doSubscribe(Range(pairs)) ELSE sentOn
  /\ hist' = [hist EXCEPT !.resub = [conn |-> conn, before |-> hist.discSubs,
                                     sent |-> Len(pairs) > 0 /\ WriteOK],
                          !.failedWrite = @ \/ (Len(pairs) > 0 /\ doSubscribeErr)]
  /\ UNCHANGED <<now, conn, connStatus, done, reconnect, pairs, readPump, top10,
                 subscribed, ledger, redisTop10, mainPc, task, prune, upd>>
  /\ UNCHANGED <<limVars, resVars>>

\* Close: close(w.done); w.conn.Close()
Close ==
  /\ done' = TRUE
  /\ connStatus' = IF conn # 0 THEN [connStatus EXCEPT ![conn] = "closed"] ELSE connStatus

(***************************************************************************)
(* main                                                                    *)
(***************************************************************************)
\* wsClient.Connect() at startup: a failure is logged and main goes on
Main_Connect ==
  /\ mainPc = "connect"
  /\ \/ /\ Connect(NextConn, keepAlive)
        /\ mainPc' = "start"
     \/ /\ mainPc' = "start"
        /\ UNCHANGED <<conn, connStatus, readPump, keepAlive>>
  /\ UNCHANGED <<now, done, reconnect, pairs, top10, subscribed, ledger, redisTop10,
                 task, prune, upd, sentOn, hist>>
  /\ UNCHANGED <<limVars, resVars>>

\* defer wsClient.Close(), registered only when the startup Connect succeeded
\* (connection 1 is then the one main dialled)
Main_Close ==
  /\ mainPc = "serving" /\ ~done
  /\ connStatus[1] # "none"
  /\ Close
  /\ mainPc' = "closed"
  /\ UNCHANGED <<now, conn, reconnect, pairs, readPump, keepAlive, top10, subscribed,
                 ledger, redisTop10, task, prune, upd, sentOn, hist>>
  /\ UNCHANGED <<limVars, resVars>>


\* a caller of the exported method Close, in any state of the client:
\* close(w.done) panics when the channel is closed already, and the panic
\* ends the process with all its goroutines
Close_call ==
  /\ mainPc # "panic"
  /\ IF done
     THEN /\ mainPc' = "panic"
          /\ readPump' = [i \in ConnIds |-> "off"]
          /\ keepAlive' = [i \in ConnIds |-> "off"]
          /\ UNCHANGED <<done, connStatus>>
     ELSE /\ Close
          /\ UNCHANGED <<mainPc, readPump, keepAlive>>
  /\ UNCHANGED <<now, conn, reconnect, pairs, top10, subscribed, ledger, redisTop10,
                 task, prune, upd, sentOn, hist>>
  /\ UNCHANGED <<limVars, resVars>>

(***************************************************************************)
(* DynamicSubscriber                                                       *)
(***************************************************************************)
\* redis.LRange(ctx, Top10Key, 0, 9)
LRange09(l) == SubSeq(l, 1, IF Len(l) < TopN THEN Len(l) ELSE TopN)

\* (mutant) a refresh that takes any persisted list that is not empty
refreshTop10_usesPersisted_nonEmpty(l) == Len(l) > 0

\* refreshTop10: err == nil && len(pairs) == 10
refreshTop10_usesPersisted(l) == Len(l) = TopN

\* refreshTop10: the persisted list when it holds ten codes, else the default
\* list, which is then persisted
refreshTop10 ==
  IF refreshTop10_usesPersisted(LRange09(redisTop10))
  THEN top10' = LRange09(redisTop10) /\ UNCHANGED redisTop10
  ELSE top10' = defaultTop10 /\ redisTop10' = defaultTop10

\* (mutant) subscribeTop10 that sends the request and marks nothing
subscribeTop10_marked_none(s) == s

\* subscribeTop10: for _, pair := range d.top10 { d.subscribed[pair] = true }
subscribeTop10_marked(s) == s \cup Range(top10)

\* subscribeTop10 (d.ws is never nil: main always constructs the client);
\* under d.mu it marks every protected code and calls ws.Subscribe(top10),
\* which stores the list in w.pairs and writes the subscribe request
subscribeTop10 ==
  /\ subscribed' = subscribeTop10_marked(subscribed)
  /\ IF Len(top10) > 0
     THEN pairs' = top10 /\ sentOn' = doSubscribe(Range(top10))
     ELSE UNCHANGED <<pairs, sentOn>>
  /\ hist' = [hist EXCEPT !.topMarked = @ \cup Range(top10),
                          !.failedWrite = @ \/ (Len(top10) > 0 /\ doSubscribeErr)]

Start_refreshTop10 ==
  /\ mainPc = "start"
  /\ refreshTop10
  /\ mainPc' = "subscribe"
  /\ UNCHANGED <<now, conn, connStatus, done, reconnect, pairs, readPump, keepAlive,
                 subscribed, ledger, task, prune, upd, sentOn, hist>>
  /\ UNCHANGED <<limVars, resVars>>

\* the end of Start: subscribeTop10, go cleanupRoutine; main then serves requests
Start_subscribeTop10 ==
  /\ mainPc = "subscribe"
  /\ subscribeTop10
  /\ mainPc' = "serving"
  /\ UNCHANGED <<now, conn, connStatus, done, reconnect, readPump, keepAlive, top10,
                 ledger, redisTop10, task, prune, upd>>
  /\ UNCHANGED <<limVars, resVars>>

\* OnPairRequested: redis.HSet(DynamicPairsKey, pairCode, now)
OnPairRequested_HSet(t, c) ==
  /\ ledger' = HSet(ledger, c, now)
  /\ task' = [task EXCEPT ![t] = [@ EXCEPT !.pc = "check", !.code = c, !.at = now]]

\* a call of OnPairRequested(c)
OnPairRequested_record(t, c) ==
  /\ mainPc = "serving"
  /\ task[t].pc = "idle"
  /\ \A u \in Tasks : u < t => task[u].pc # "idle"
  /\ OnPairRequested_HSet(t, c)
  /\ UNCHANGED <<now, conn, connStatus, done, reconnect, pairs, readPump, keepAlive,
                 top10, subscribed, redisTop10, mainPc, prune, upd, sentOn, hist>>
  /\ UNCHANGED <<limVars, resVars>>

\* the tasks that hold d.mu: addSubscription between d.mu.Lock() and the
\* deferred Unlock
mu == {t \in Tasks : task[t].pc \in {"locked", "checked", "writing"}}

\* OnPairRequested: alreadySubscribed := d.subscribed[pairCode] under RLock
OnPairRequested_check(t) ==
  /\ task[t].pc = "check" /\ mainPc # "panic"
  /\ mu = {}
  /\ task' = [task EXCEPT ![t] =
       IF task[t].code \in subscribed
       THEN [@ EXCEPT !.pc = "done", !.already = TRUE, !.outcome = "already"]
       ELSE [@ EXCEPT !.pc = "add"]]
  /\ UNCHANGED <<now, conn, connStatus, done, reconnect, pairs, readPump, keepAlive,
                 top10, subscribed, ledger, redisTop10, mainPc, prune, upd, sentOn, hist>>
  /\ UNCHANGED <<limVars, resVars>>

\* (mutant) addSubscription without the second look at d.subscribed
addSubscription_skip_never(pairCode) == FALSE

\* addSubscription returns at once: the code is subscribed by now
addSubscription_skip(pairCode) == pairCode \in subscribed

\* (mutant) addSubscription that marks the code whatever doSubscribe returned
addSubscription_marks_always(err) == TRUE

\* addSubscription: a doSubscribe error returns before d.subscribed[pairCode] = true
addSubscription_marks(err) == ~err

\* addSubscription from d.mu.Lock (taken at position at) to the deferred
\* d.mu.Unlock: the re-check, the subscribe request written by doSubscribe,
\* the mark
addSubscription_from(t, at) ==
  LET c == task[t].code IN
  /\ task[t].pc = at /\ mainPc # "panic"
  /\ IF addSubscription_skip(c)
     THEN /\ task' = [task EXCEPT ![t] = [@ EXCEPT !.pc = "done", !.outcome = "recheck"]]
          /\ UNCHANGED <<subscribed, sentOn, hist>>
     ELSE /\ sentOn' = doSubscribe({c})
          /\ subscribed' = IF addSubscription_marks(doSubscribeErr)
                           THEN subscribed \cup {c} ELSE subscribed
          /\ hist' = [hist EXCEPT !.addSends[c] = IF WriteOK THEN @ + 1 ELSE @,
                                  !.failedWrite = @ \/ doSubscribeErr]
          /\ task' = [task EXCEPT ![t] =
               [@ EXCEPT !.pc = "done",
                         !.outcome = IF doSubscribeErr THEN "failed"
                                     ELSE IF WriteOK THEN "sent" ELSE "nosend"]]
  /\ UNCHANGED <<now, conn, connStatus, done, reconnect, pairs, readPump, keepAlive,
                 top10, ledger, redisTop10, mainPc, prune, upd>>
  /\ UNCHANGED <<limVars, resVars>>

\* addSubscription, the whole of it under d.mu.Lock
addSubscription(t) == addSubscription_from(t, "add")

\* addSubscription: d.mu.Lock() is granted
addSubscription_Lock(t) ==
  /\ task[t].pc = "add" /\ mainPc # "panic"
  /\ mu = {}
  /\ task' = [task EXCEPT ![t] = [@ EXCEPT !.pc = "locked"]]
  /\ UNCHANGED <<now, conn, connStatus, done, reconnect, pairs, readPump, keepAlive,
                 top10, subscribed, ledger, redisTop10, mainPc, prune, upd, sentOn, hist>>
  /\ UNCHANGED <<limVars, resVars>>

\* addSubscription: the body, run by the holder of d.mu, and the Unlock
addSubscription_locked(t) == addSubscription_from(t, "locked")

(***************************************************************************)
(* Writes on the connection as steps that take time.  hist.writers holds   *)
(* the calls of conn.WriteJSON and conn.WriteMessage that have started and *)
(* not returned: who writes, on which connection (the value of w.conn the  *)
(* call was made on), and the codes of the subscribe request.              *)
(***************************************************************************)
Writer(by, id, c, codes) == [by |-> by, id |-> id, conn |-> c, codes |-> codes]

\* the writes in progress on connection c
WritersOn(c) == {w \in hist.writers : w.conn = c}

\* addSubscription under d.mu with no write: the code is subscribed by now,
\* or d.ws.conn is nil
addSubscription_nowrite(t) ==
  /\ addSubscription_skip(task[t].code) \/ conn = 0
  /\ addSubscription_locked(t)

\* addSubscription: d.ws.conn != nil, then doSubscribe: if w.conn == nil is
\* false; no lock of the client is held
doSubscribe_check(t) ==
  /\ task[t].pc = "locked" /\ mainPc # "panic"
  /\ ~addSubscription_skip(task[t].code) /\ conn # 0
  /\ task' = [task EXCEPT ![t] = [@ EXCEPT !.pc = "checked"]]
  /\ UNCHANGED <<now, conn, connStatus, done, reconnect, pairs, readPump, keepAlive,
                 top10, subscribed, ledger, redisTop10, mainPc, prune, upd, sentOn, hist>>
  /\ UNCHANGED <<limVars, resVars>>

\* doSubscribe: w.conn.WriteJSON(req) is called on the connection w.conn
\* holds now
doSubscribe_write(t) ==
  /\ task[t].pc = "checked"
  /\ task' = [task EXCEPT ![t] = [@ EXCEPT !.pc = "writing"]]
  /\ hist' = [hist EXCEPT !.writers = @ \cup {Writer("task", t, conn, {task[t].code})}]
  /\ UNCHANGED <<now, conn, connStatus, done, reconnect, pairs, readPump, keepAlive,
                 top10, subscribed, ledger, redisTop10, mainPc, prune, upd, sentOn>>
  /\ UNCHANGED <<limVars, resVars>>

\* doSubscribe: WriteJSON returns; addSubscription marks the code unless the
\* write failed, and unlocks
doSubscribe_written(t) ==
  /\ task[t].pc = "writing"
  /\ \E w \in hist.writers :
       /\ w.by = "task" /\ w.id = t
       /\ LET ok == connStatus[w.conn] = "open"
              c == task[t].code
          IN /\ sentOn' = IF ok THEN [sentOn EXCEPT ![w.conn] = @ \cup w.codes] ELSE sentOn
             /\ subscribed' = IF addSubscription_marks(~ok)
                              THEN subscribed \cup {c} ELSE subscribed
             /\ hist' = [hist EXCEPT !.addSends[c] = IF ok THEN @ + 1 ELSE @,
                                     !.failedWrite = @ \/ ~ok,
                                     !.writers = @ \ {w}]
             /\ task' = [task EXCEPT ![t] =
                  [@ EXCEPT !.pc = "done",
                            !.outcome = IF ok THEN "sent" ELSE "failed"]]
  /\ UNCHANGED <<now, conn, connStatus, done, reconnect, pairs, readPump, keepAlive,
                 top10, ledger, redisTop10, mainPc, prune, upd>>
  /\ UNCHANGED <<limVars, resVars>>

\* keepAlive: case <-ticker.C with w.conn not nil, WriteMessage(PingMessage)
\* is called on w.conn
keepAlive_ping_write(i) ==
  /\ keepAlive[i] = "select" /\ ~done
  /\ conn # 0
  /\ keepAlive' = [keepAlive EXCEPT ![i] = "pinging"]
  /\ hist' = [hist EXCEPT !.writers = @ \cup {Writer("keepAlive", i, conn, {})}]
  /\ UNCHANGED <<now, conn, connStatus, done, reconnect, pairs, readPump, top10,
                 subscribed, ledger, redisTop10, mainPc, task, prune, upd, sentOn>>
  /\ UNCHANGED <<limVars, resVars>>

\* keepAlive: re-subscribe after a successful reconnect, doSubscribe(pairs)
\* calls WriteJSON on w.conn
keepAlive_resub_write(i) ==
  /\ keepAlive[i] = "resub"
  /\ Len(pairs) > 0 /\ conn # 0
  /\ keepAlive' = [keepAlive EXCEPT ![i] = "resubbing"]
  /\ hist' = [hist EXCEPT !.writers = @ \cup {Writer("keepAlive", i, conn, Range(pairs))}]
  /\ UNCHANGED <<now, conn, connStatus, done, reconnect, pairs, readPump, top10,
                 subscribed, ledger, redisTop10, mainPc, task, prune, upd, sentOn>>
  /\ UNCHANGED <<limVars, resVars>>

\* keepAlive: nothing to re-subscribe (w.pairs is empty), back to the select
keepAlive_resub_nowrite(i) ==
  /\ Len(pairs) = 0
  /\ keepAlive_resub(i)

\* keepAlive: the write of the ping or of the re-subscribe returns; the
\* error of the ping is dropped, the error of the re-subscribe is logged
keepAlive_written(i) ==
  /\ keepAlive[i] \in {"pinging", "resubbing"}
  /\ \E w \in hist.writers :
       /\ w.by = "keepAlive" /\ w.id = i
       /\ LET ok == connStatus[w.conn] = "open"
          IN /\ sentOn' = IF ok THEN [sentOn EXCEPT ![w.conn] = @ \cup w.codes] ELSE sentOn
             /\ hist' = [hist EXCEPT
                  !.resub = IF keepAlive[i] = "resubbing"
                            THEN [conn |-> w.conn, before |-> hist.discSubs, sent |-> ok]
                            ELSE @,
                  !.failedWrite = @ \/ ~ok,
                  !.writers = @ \ {w}]
  /\ keepAlive' = [keepAlive EXCEPT ![i] = "select"]
  /\ UNCHANGED <<now, conn, connStatus, done, reconnect, pairs, readPump, top10,
                 subscribed, ledger, redisTop10, mainPc, task, prune, upd>>
  /\ UNCHANGED <<limVars, resVars>>

\* getPriceWithCache: wsClient.GetCached(code) (wsClient and dynamicSubscriber
\* are never nil once main has started); on a hit the quote is returned with "ws"
\* after OnPairRequested, else the pull API is asked
getPriceWithCache_read(t, c) ==
  /\ mainPc = "serving"
  /\ res[t].pc = "idle"
  /\ \A u \in Tasks : u < t => res[u].pc # "idle"
  /\ res' = [res EXCEPT ![t] =
       IF GetCached_ok(c)
       THEN [@ EXCEPT !.pc = "onpair", !.code = c, !.source = "ws", !.hit = c \in DOMAIN cache]
       ELSE [@ EXCEPT !.pc = "fetch", !.code = c, !.hit = c \in DOMAIN cache]]
  /\ UNCHANGED <<streamVars, limVars, cache, cacheVars, batch>>

\* (mutant) a fallback that records the access also when the fetch failed
getPriceWithCache_afterFetch_always(ok) == "onpair"

\* getPriceWithCache: if err != nil { return nil, "" }, else OnPairRequested
getPriceWithCache_afterFetch(ok) == IF ok THEN "onpair" ELSE "done"

\* (mutant) a fallback that stores the quote it fetched in the cache
getPriceWithCache_fallback_stored(c, ok) ==
  IF ok
  THEN <<HSet(cache, c, Len(heap) + 1),
         Append(heap, [code |-> c, price |-> Len(heap) + 1, ask |-> 0, bid |-> 0,
                       open |-> FALSE])>>
  ELSE <<cache, heap>>

\* getPriceWithCache: the quote of priceClient.GetPrice goes to the caller
\* only; the cache and the quotes it points to are what they were
getPriceWithCache_fallback(c, ok) == <<cache, heap>>

\* getPriceWithCache: priceClient.GetPrice(code) succeeds or fails
getPriceWithCache_fetch(t, ok) ==
  /\ res[t].pc = "fetch"
  /\ res' = [res EXCEPT ![t] =
       [@ EXCEPT !.pc = getPriceWithCache_afterFetch(ok),
                 !.fetched = IF ok THEN "ok" ELSE "fail",
                 !.source = IF ok THEN "http" ELSE ""]]
  /\ LET after == getPriceWithCache_fallback(res[t].code, ok)
     IN cache' = after[1] /\ heap' = after[2]
  /\ UNCHANGED <<streamVars, limVars, rd, msg, batch>>

\* getPriceWithCache: dynamicSubscriber.OnPairRequested(ctx, code) is called
getPriceWithCache_onPair(t) ==
  /\ res[t].pc = "onpair"
  /\ task[t].pc = "idle"
  /\ OnPairRequested_HSet(t, res[t].code)
  /\ res' = [res EXCEPT ![t] = [@ EXCEPT !.pc = "wait", !.calls = @ + 1]]
  /\ UNCHANGED <<now, conn, connStatus, done, reconnect, pairs, readPump, keepAlive,
                 top10, subscribed, redisTop10, mainPc, prune, upd, sentOn, hist>>
  /\ UNCHANGED <<limVars, cache, cacheVars, batch>>

\* getPriceWithCache: OnPairRequested has returned; return data, source
getPriceWithCache_return(t) ==
  /\ res[t].pc = "wait"
  /\ task[t].pc = "done"
  /\ res' = [res EXCEPT ![t] = [@ EXCEPT !.pc = "done"]]
  /\ UNCHANGED <<streamVars, limVars, cache, cacheVars, batch>>

\* (mutant) removeSubscription without the top 10 loop
removeSubscription_unguarded(pairCode) == subscribed \ {pairCode}

\* removeSubscription under d.mu.Lock: the subscription set afterwards
removeSubscription(pairCode) ==
  IF pairCode \in Range(top10) THEN subscribed ELSE subscribed \ {pairCode}

\* (mutant) a sweep that also takes the entries exactly at the threshold
StalePairs_inclusive(h, t) == {c \in DOMAIN h : h[c] <= t - StaleThreshold}

\* the ledger entries cleanupStalePairs finds stale at time t
StalePairs(h, t) == {c \in DOMAIN h : h[c] < t - StaleThreshold}

\* cleanupStalePairs: now, threshold, HGetAll
cleanupStalePairs_scan ==
  /\ mainPc = "serving"
  /\ prune.pc = "idle"
  /\ StalePairs(ledger, now) # {}
  /\ prune' = [prune EXCEPT !.pc = "loop", !.todo = StalePairs(ledger, now),
                            !.at = now, !.snap = ledger]
  /\ UNCHANGED <<now, conn, connStatus, done, reconnect, pairs, readPump, keepAlive,
                 top10, subscribed, ledger, redisTop10, mainPc, task, upd, sentOn, hist>>
  /\ UNCHANGED <<limVars, resVars>>

\* cleanupStalePairs: redis.HDel(DynamicPairsKey, pair) for the next stale pair
cleanupStalePairs_hdel(c) ==
  /\ prune.pc = "loop"
  /\ c \in prune.todo
  /\ ledger' = HDel(ledger, c)
  /\ prune' = [prune EXCEPT !.pc = "remove", !.cur = c, !.todo = @ \ {c}]
  /\ UNCHANGED <<now, conn, connStatus, done, reconnect, pairs, readPump, keepAlive,
                 top10, subscribed, redisTop10, mainPc, task, upd, sentOn, hist>>
  /\ UNCHANGED <<limVars, resVars>>

\* cleanupStalePairs: d.removeSubscription(pair)
cleanupStalePairs_remove ==
  /\ prune.pc = "remove"
  /\ subscribed' = removeSubscription(prune.cur)
  /\ prune' = IF prune.todo = {}
              THEN [IdlePrune EXCEPT !.cur = prune.cur,
                                     !.kept = prune.cur \in Range(top10) \cap subscribed]
              ELSE [prune EXCEPT !.pc = "loop",
                                 !.kept = prune.cur \in Range(top10) \cap subscribed]
  /\ hist' = [hist EXCEPT !.removed = @ \cup (subscribed \ subscribed')]
  /\ UNCHANGED <<now, conn, connStatus, done, reconnect, pairs, readPump, keepAlive,
                 top10, ledger, redisTop10, mainPc, task, upd, sentOn>>
  /\ UNCHANGED <<limVars, resVars>>

\* cleanupRoutine returns only on <-ctx.Done(); Start is given
\* context.Background(), which is never cancelled, and the loop does not look
\* at WSClient.done
cleanupRoutine_returns == FALSE

\* (mutant) UpdateTop10 that returns early on an empty list only
UpdateTop10_returnsEarly_empty(list) == Len(list) = 0

\* UpdateTop10: if len(pairs) < 10 { return }
UpdateTop10_returnsEarly(list) == Len(list) < TopN

\* UpdateTop10: top10 := pairs[:10], of a list that passed the length test
UpdateTop10_prefix(list) == SubSeq(list, 1, IF Len(list) < TopN THEN Len(list) ELSE TopN)

\* UpdateTop10: a list shorter than ten is ignored; else d.top10 = pairs[:10]
\* under d.mu; short is history: the last call was made with a short list
UpdateTop10_set(list) ==
  /\ mainPc = "serving"
  /\ upd.pc = "idle"
  /\ IF UpdateTop10_returnsEarly(list)
     THEN /\ upd' = [upd EXCEPT !.short = Len(list) < TopN]
          /\ UNCHANGED top10
     ELSE /\ top10' = UpdateTop10_prefix(list)
          /\ upd' = [pc |-> "persist", list |-> UpdateTop10_prefix(list),
                     short |-> Len(list) < TopN]
  /\ UNCHANGED <<now, conn, connStatus, done, reconnect, pairs, readPump, keepAlive,
                 subscribed, ledger, redisTop10, mainPc, task, prune, sentOn, hist>>
  /\ UNCHANGED <<limVars, resVars>>

\* UpdateTop10: redis.Del(Top10Key) and RPush of each code (nothing reads the
\* key while the server runs), then d.subscribeTop10()
UpdateTop10_subscribe ==
  /\ upd.pc = "persist"
  /\ redisTop10' = upd.list
  /\ subscribeTop10
  /\ upd' = [upd EXCEPT !.pc = "idle", !.list = <<>>]
  /\ UNCHANGED <<now, conn, connStatus, done, reconnect, readPump, keepAlive, top10,
                 ledger, mainPc, task, prune>>
  /\ UNCHANGED <<limVars, resVars>>

\* time passes: by the staleness threshold, or by a second more
TicksOf(t) == t \div StaleThreshold

Tick(d) ==
  /\ TicksOf(now) < MaxTicks
  /\ now' = now + d
  /\ UNCHANGED <<conn, connStatus, done, reconnect, pairs, readPump, keepAlive, top10,
                 subscribed, ledger, redisTop10, mainPc, task, prune, upd, sentOn, hist>>
  /\ UNCHANGED <<limVars, resVars>>

(***************************************************************************)
(* Readers of the quote cache                                              *)
(***************************************************************************)
\* GetCached(code): data, ok := w.cache[code] under cacheMu.RLock; the caller
\* is handed the pointer, or not-found
GetCached(code) ==
  /\ rd.pc = "idle"
  /\ rd' = IF GetCached_ok(code)
           THEN [rd EXCEPT !.pc = "found", !.code = code, !.ptr = cache[code]]
           ELSE [rd EXCEPT !.pc = "done", !.code = code]
  /\ UNCHANGED <<streamVars, limVars, cache, res, heap, msg, batch>>

\* toPriceResponse: the caller reads data.Price of the quote it was handed
toPriceResponse_price ==
  /\ rd.pc = "found"
  /\ rd' = [rd EXCEPT !.pc = "price", !.price = heap[rd.ptr].price]
  /\ UNCHANGED <<streamVars, limVars, cache, res, heap, msg, batch>>

\* toPriceResponse: then data.Ask, data.Bid and data.Market.Open
toPriceResponse_rest ==
  /\ rd.pc = "price"
  /\ rd' = [rd EXCEPT !.pc = "done", !.ask = heap[rd.ptr].ask,
                      !.bid = heap[rd.ptr].bid, !.open = heap[rd.ptr].open]
  /\ UNCHANGED <<streamVars, limVars, cache, res, heap, msg, batch>>

(***************************************************************************)
(* handleBatch                                                             *)
(***************************************************************************)
\* the pairs of a batch request: item t is resolved by request task t
BatchPairs == [Tasks -> ReqCodes]

\* handleBatch: the request is bound, ordered = make([]*PriceResponse, len)
\* (0 is nil, k the response of item k) and one goroutine per item is started
handleBatch_start(p) ==
  /\ mainPc = "serving"
  /\ batch.pc = "idle"
  /\ \A t \in Tasks : res[t].pc = "idle"
  /\ batch' = [IdleBatch EXCEPT !.pc = "collect", !.pairs = p,
                                !.ordered = [i \in Tasks |-> 0]]
  /\ UNCHANGED <<streamVars, limVars, cache, res, cacheVars>>

\* the goroutine of item t: data, source := getPriceWithCache(code)
handleBatch_fetch(t) ==
  /\ batch.pc = "collect"
  /\ getPriceWithCache_read(t, batch.pairs[t])

\* the goroutine of item t: resultChan <- result{index, data or err}; the
\* channel has room for every item
handleBatch_send(t) ==
  /\ batch.pc = "collect"
  /\ res[t].pc = "done"
  /\ t \notin batch.sent
  /\ batch' = [batch EXCEPT !.sent = @ \cup {t},
                            !.chan = Append(@, [index |-> t, ok |-> res[t].source # ""])]
  /\ UNCHANGED <<streamVars, limVars, cache, res, cacheVars>>

\* (mutant) a collector that stores the responses as they arrive
handleBatch_place_arrival(ordered, r) ==
  LET k == CHOOSE i \in DOMAIN ordered :
             ordered[i] = 0 /\ \A j \in DOMAIN ordered : j < i => ordered[j] # 0
  IN [ordered EXCEPT ![k] = r.index]

\* handleBatch: ordered[r.index] = r.data
handleBatch_place(ordered, r) == [ordered EXCEPT ![r.index] = r.index]

\* handleBatch: for r := range resultChan, one result received
handleBatch_recv ==
  /\ batch.pc = "collect"
  /\ batch.chan # <<>>
  /\ LET r == Head(batch.chan) IN
       batch' = [batch EXCEPT
         !.chan = Tail(@),
         !.arrival = Append(@, r.index),
         !.errors = IF r.ok THEN @ ELSE Append(@, r.index),
         !.ordered = IF r.ok THEN handleBatch_place(@, r) ELSE @]
  /\ UNCHANGED <<streamVars, limVars, cache, res, cacheVars>>

\* (mutant) a channel that is closed as soon as one goroutine is done
handleBatch_closed_first(sent) == sent # {}

\* handleBatch: go func() { wg.Wait(); close(resultChan) }(): the range over
\* the channel ends when every goroutine has sent its result
handleBatch_closed(sent) == sent = Tasks

NotNil(x) == x # 0

\* handleBatch: every goroutine is done and the channel is closed and
\* drained; results are the entries of ordered that are not nil
handleBatch_respond ==
  /\ batch.pc = "collect"
  /\ handleBatch_closed(batch.sent) /\ batch.chan = <<>>
  /\ batch' = [batch EXCEPT !.pc = "responded",
                            !.results = SelectSeq(batch.ordered, NotNil)]
  /\ UNCHANGED <<streamVars, limVars, cache, res, cacheVars>>

(***************************************************************************)
(* ratelimit.Limiter and the middlewares                                   *)
(***************************************************************************)
Max(a, b) == IF a > b THEN a ELSE b

\* redis GET of a counter (redis.Nil reads as 0), INCR, EXPIRE
Get(k) == IF k \in DOMAIN store THEN store[k] ELSE 0
Incr(k) == [x \in DOMAIN store \cup {k} |-> IF x = k THEN Get(k) + 1 ELSE store[x]]
Expire(t, k, d) == [x \in DOMAIN t \cup {k} |-> IF x = k THEN now + d ELSE t[x]]

\* the keys that are still alive at time t
Alive(t) == {k \in DOMAIN store : k \in DOMAIN ttl => ttl[k] > t}

RateKey(key, sec) == <<"ratelimit", key, sec>>
TotalKey(key) == <<"usage:total", key>>
Day == 86400
DayOf(t) == t \div Day
DayKey(key, t) == <<"usage:daily", key, DayOf(t)>>
HourKey(key, t) == <<"usage:hourly", key, t \div 3600>>
GlobalKey == <<"global">>

\* (mutant) Allow that compares with < instead of <=
Allow_allowed_strict(count) == count < Limit

\* Allow: count <= int64(l.limit)
Allow_allowed(count) == count <= Limit

\* Allow: remaining := l.limit - int(count), clamped at zero
Allow_remaining(count) == Max(0, Limit - count)

\* CheckGlobalLimit: the shared counter is incremented and compared with the
\* cap; a store error lets the request pass (fail-open)
CheckGlobalLimit_allowed(count, err) == err \/ count <= GlobalLimit

\* CheckGlobalLimit: the remaining global budget, clamped at zero
CheckGlobalLimit_remaining(count, err) == Max(0, GlobalLimit - count)

\* GetGlobalUsage: the value of the shared counter (0 when it is missing)
GetGlobalUsage == Get(GlobalKey)

\* handleAdminStats: "global_remaining": 10000000 - globalUsage
handleAdminStats_globalRemaining(globalUsage) == GlobalLimit - globalUsage

\* (mutant) a middleware that goes on to Allow whatever the global check said
rateLimitMiddleware_globalRejects_never(globalAllowed, err) == FALSE

\* (mutant) a middleware that also rejects when the global check failed
rateLimitMiddleware_globalRejects_onError(globalAllowed, err) == ~globalAllowed \/ err

\* rateLimitMiddleware: if !globalAllowed (the error of the check is dropped)
rateLimitMiddleware_globalRejects(globalAllowed, err) == ~globalAllowed

\* (mutant) a middleware that rejects when Allow returned an error
rateLimitMiddleware_onAllowError_reject == "429"

\* rateLimitMiddleware: the status of a request whose Allow returned an error
\* (c.Next(): the handler runs)
rateLimitMiddleware_onAllowError == "200"

\* the Allow calls already counted for a key in a window
Ordinal(r, key, w) ==
  1 + Cardinality({q \in Reqs \ {r} :
                     req[q].key = key /\ req[q].win = w /\ req[q].ord > 0})

\* authMiddleware up to c.Next(): no key or an invalid key ends the request
\* with 401 before any other middleware runs
authMiddleware_enter(r, key, valid) ==
  /\ req[r].pc = "idle"
  /\ \A q \in Reqs : q < r => req[q].pc # "idle"
  \* the keys are interchangeable: the first request uses k1
  /\ key = "k2" => \E q \in Reqs : req[q].key = "k1"
  /\ req' = [req EXCEPT ![r] =
       IF valid THEN [@ EXCEPT !.pc = "global", !.key = key]
       ELSE [@ EXCEPT !.pc = "done", !.key = key, !.status = "401"]]
  /\ UNCHANGED <<store, ttl>>
  /\ UNCHANGED <<streamVars, resVars>>

\* rateLimitMiddleware: CheckGlobalLimit, the headers, and the 429 of the
\* global cap; after c.Abort() control returns to authMiddleware
rateLimitMiddleware_global(r, err) ==
  LET count == IF err THEN 0 ELSE Get(GlobalKey) + 1
      globalAllowed == CheckGlobalLimit_allowed(count, err)
      G == IF globalAllowed THEN "allowed" ELSE "rejected"
  IN
  /\ req[r].pc = "global"
  /\ store' = IF err THEN store ELSE Incr(GlobalKey)
  /\ req' = [req EXCEPT ![r] =
       IF rateLimitMiddleware_globalRejects(globalAllowed, err)
       THEN [@ EXCEPT !.pc = "usage", !.g = G, !.gErr = err, !.status = "429",
                      !.gRemaining = CheckGlobalLimit_remaining(count, err)]
       ELSE [@ EXCEPT !.pc = "allow", !.g = G, !.gErr = err,
                      !.gRemaining = CheckGlobalLimit_remaining(count, err)]]
  /\ UNCHANGED ttl
  /\ UNCHANGED <<streamVars, resVars>>

\* Allow: now, the key of the window, INCR; an error of the store is
\* returned as (false, 0, err), on which the middleware calls c.Next()
Allow_incr(r, err) ==
  LET w == now
      k == RateKey(req[r].key, w)
  IN
  /\ req[r].pc = "allow"
  /\ IF err
     THEN /\ req' = [req EXCEPT ![r] =
               [@ EXCEPT !.pc = "usage", !.a = "err", !.win = w,
                         !.status = rateLimitMiddleware_onAllowError]]
          /\ UNCHANGED store
     ELSE /\ store' = Incr(k)
          /\ req' = [req EXCEPT ![r] =
               [@ EXCEPT !.pc = "allowed", !.win = w, !.count = Get(k) + 1,
                         !.ord = Ordinal(r, req[r].key, w)]]
  /\ UNCHANGED ttl
  /\ UNCHANGED <<streamVars, resVars>>

\* Allow: EXPIRE on the first request of the window (the command may fail
\* like any command to the store; its result is not looked at), the result;
\* then the middleware: headers, 429 when not allowed, else c.Next()
Allow_return(r, expireErr) ==
  LET k == RateKey(req[r].key, req[r].win)
      allowed == Allow_allowed(req[r].count)
  IN
  /\ req[r].pc = "allowed"
  /\ expireErr => req[r].count = 1
  /\ ttl' = IF req[r].count = 1 /\ k \in DOMAIN store /\ ~expireErr
            THEN Expire(ttl, k, 2 * Window) ELSE ttl
  /\ req' = [req EXCEPT ![r] =
       [@ EXCEPT !.pc = "usage",
                 !.a = IF allowed THEN "allowed" ELSE "limited",
                 !.remaining = Allow_remaining(req[r].count),
                 !.status = IF allowed THEN "200" ELSE "429"]]
  /\ UNCHANGED store
  /\ UNCHANGED <<streamVars, resVars>>

\* authMiddleware after c.Next() has returned starts IncrementUsage in a
\* goroutine: INCR of the total, of the day bucket (kept 8 days) and of the
\* hour bucket (kept 25 hours)
IncrementUsage(r) ==
  LET t == TotalKey(req[r].key)
      d == DayKey(req[r].key, now)
      h == HourKey(req[r].key, now)
  IN
  /\ req[r].pc = "usage"
  /\ store' = [x \in DOMAIN store \cup {t, d, h} |->
                 IF x \in {t, d, h} THEN Get(x) + 1 ELSE store[x]]
  /\ ttl' = [x \in DOMAIN ttl \cup {d, h} |->
               IF x = d THEN now + 8 * 24 * 3600
               ELSE IF x = h THEN now + 25 * 3600 ELSE ttl[x]]
  /\ req' = [req EXCEPT ![r] =
       [@ EXCEPT !.incs = 3, !.pc = "done", !.day = DayOf(now)]]
  /\ UNCHANGED <<streamVars, resVars>>

\* a caller of Limiter.IncrementUsage(ctx, key)
IncrementUsage_call(r, key) ==
  /\ req[r].pc = "idle"
  /\ \A q \in Reqs : q < r => req[q].pc # "idle"
  /\ req' = [req EXCEPT ![r] = [@ EXCEPT !.pc = "usage", !.key = key]]
  /\ UNCHANGED <<store, ttl>>
  /\ UNCHANGED <<streamVars, resVars>>

\* GetUsage
GetUsage(key) == Get(TotalKey(key))

\* GetDailyUsage for the day that holds time t (0 before the epoch of the model)
GetDailyUsage(key, t) == IF t < 0 THEN 0 ELSE Get(DayKey(key, t))

\* (mutant) a loop over six days only
GetLast7DaysUsage_days_six == 0..5

\* GetLast7DaysUsage: for i := 0; i < 7; i++ { t := now.AddDate(0, 0, -i) ... }
GetLast7DaysUsage_days == 0..6

RECURSIVE SumDays(_, _, _)
SumDays(key, t, S) ==
  IF S = {} THEN 0
  ELSE LET i == CHOOSE x \in S : TRUE
       IN GetDailyUsage(key, t - i * Day) + SumDays(key, t, S \ {i})

GetLast7DaysUsage(key) == SumDays(key, now, GetLast7DaysUsage_days)

\* a day passes; the keys whose expiry has come are gone
UsageTick ==
  /\ DayOf(now) < MaxDay
  /\ now' = now + Day
  /\ store' = [k \in Alive(now + Day) |-> store[k]]
  /\ ttl' = [k \in DOMAIN ttl \cap Alive(now + Day) |-> ttl[k]]
  /\ UNCHANGED <<req, resVars>>
  /\ UNCHANGED <<conn, connStatus, done, reconnect, pairs, readPump, keepAlive, top10,
                 subscribed, ledger, redisTop10, mainPc, task, prune, upd, sentOn, hist>>

\* GetLast24HoursUsage: for i := 0; i < 24; i++ { t := now.Add(-i * Hour) ... },
\* the hour keys that are read with err == nil are summed
GetLast24HoursUsage_hours == 0..23

\* the hour bucket that holds time t (0 before the epoch of the model)
GetHourlyUsage(key, t) == IF t < 0 THEN 0 ELSE Get(HourKey(key, t))

RECURSIVE SumHours(_, _, _)
SumHours(key, t, S) ==
  IF S = {} THEN 0
  ELSE LET i == CHOOSE x \in S : TRUE
       IN GetHourlyUsage(key, t - i * 3600) + SumHours(key, t, S \ {i})

GetLast24HoursUsage(key) == SumHours(key, now, GetLast24HoursUsage_hours)

\* IncrementUsage, command by command.  now := time.Now(), then INCR of the
\* total; the command may fail like any command to the store, and its result
\* is not looked at
IncrementUsage_total(r, err) ==
  /\ req[r].pc = "usage"
  /\ store' = IF err THEN store ELSE Incr(TotalKey(req[r].key))
  /\ req' = [req EXCEPT ![r] =
       [@ EXCEPT !.pc = "usage_day", !.at = now, !.day = DayOf(now),
                 !.incs = IF err THEN 0 ELSE 1]]
  /\ UNCHANGED ttl
  /\ UNCHANGED <<streamVars, resVars>>

\* IncrementUsage: INCR of the day bucket of the time read at the start, and
\* its EXPIRE of 8 days
IncrementUsage_day(r, err) ==
  LET d == DayKey(req[r].key, req[r].at) IN
  /\ req[r].pc = "usage_day"
  /\ store' = IF err THEN store ELSE Incr(d)
  /\ ttl' = IF err THEN ttl ELSE Expire(ttl, d, 8 * 24 * 3600)
  /\ req' = [req EXCEPT ![r] =
       [@ EXCEPT !.pc = "usage_hour", !.incs = IF err THEN @ ELSE @ + 1]]
  /\ UNCHANGED <<streamVars, resVars>>

\* IncrementUsage: INCR of the hour bucket and its EXPIRE of 25 hours;
\* return nil
IncrementUsage_hour(r, err) ==
  LET h == HourKey(req[r].key, req[r].at) IN
  /\ req[r].pc = "usage_hour"
  /\ store' = IF err THEN store ELSE Incr(h)
  /\ ttl' = IF err THEN ttl ELSE Expire(ttl, h, 25 * 3600)
  /\ req' = [req EXCEPT ![r] =
       [@ EXCEPT !.pc = "done", !.incs = IF err THEN @ ELSE @ + 1]]
  /\ UNCHANGED <<streamVars, resVars>>

\* half a day passes; the keys whose expiry has come are gone
HoursTick(d) ==
  /\ now + d <= MaxHalfDays * d
  /\ now' = now + d
  /\ store' = [k \in Alive(now + d) |-> store[k]]
  /\ ttl' = [k \in DOMAIN ttl \cap Alive(now + d) |-> ttl[k]]
  /\ UNCHANGED <<req, resVars>>
  /\ UNCHANGED <<conn, connStatus, done, reconnect, pairs, readPump, keepAlive, top10,
                 subscribed, ledger, redisTop10, mainPc, task, prune, upd, sentOn, hist>>

\* handleAdminStats (behind adminAuthMiddleware, outside the rate limit): the
\* response carries global_limit - GetGlobalUsage()
handleAdminStats(r) ==
  /\ req[r].pc = "idle"
  /\ \A q \in Reqs : q < r => req[q].pc # "idle"
  /\ req' = [req EXCEPT ![r] =
       [@ EXCEPT !.pc = "done", !.key = "admin", !.status = "200",
                 !.gRemaining = handleAdminStats_globalRemaining(GetGlobalUsage)]]
  /\ UNCHANGED <<store, ttl>>
  /\ UNCHANGED <<streamVars, resVars>>

\* a second passes; the keys whose expiry has come are gone
LimTick ==
  /\ now < MaxSecond
  /\ now' = now + 1
  /\ store' = [k \in Alive(now + 1) |-> store[k]]
  /\ ttl' = [k \in DOMAIN ttl \cap Alive(now + 1) |-> ttl[k]]
  /\ UNCHANGED <<req, resVars>>
  /\ UNCHANGED <<conn, connStatus, done, reconnect, pairs, readPump, keepAlive, top10,
                 subscribed, ledger, redisTop10, mainPc, task, prune, upd, sentOn, hist>>

LimNext ==
  \/ \E r \in Reqs, k \in ClientKeys, valid \in BOOLEAN : authMiddleware_enter(r, k, valid)
  \/ \E r \in Reqs, err \in BOOLEAN : rateLimitMiddleware_global(r, err)
  \/ \E r \in Reqs, err \in BOOLEAN : Allow_incr(r, err)
  \/ \E r \in Reqs, expireErr \in BOOLEAN : Allow_return(r, expireErr)
  \/ \E r \in Reqs : IncrementUsage(r)
  \/ \E r \in Reqs : handleAdminStats(r)
  \/ LimTick

LimSpec == LimInit /\ [][LimNext]_vars

\* usage accounting called directly, over several days
UsageNext ==
  \/ \E r \in Reqs, k \in ClientKeys : IncrementUsage_call(r, k)
  \/ \E r \in Reqs : IncrementUsage(r)
  \/ UsageTick

\* usage accounting starts on an empty store
UsageInit == LimInit /\ store = EmptyStore

UsageSpec == UsageInit /\ [][UsageNext]_vars

\* concurrent calls of IncrementUsage, each of its commands a step
UsageStepNext ==
  \/ \E r \in 1..MaxCalls, k \in ClientKeys : IncrementUsage_call(r, k)
  \/ \E r \in Reqs, err \in BOOLEAN : IncrementUsage_total(r, err)
  \/ \E r \in Reqs, err \in BOOLEAN : IncrementUsage_day(r, err)
  \/ \E r \in Reqs, err \in BOOLEAN : IncrementUsage_hour(r, err)
  \/ HoursTick(Day \div 2)

UsageStepSpec == UsageInit /\ [][UsageStepNext]_vars

\* the connection lifecycle with the request tasks
StreamNext ==
  \/ Main_Connect
  \/ Start_refreshTop10
  \/ Start_subscribeTop10
  \/ Main_Close
  \/ PeerDrop
  \/ \E i \in ConnIds : readPump_exit(i)
  \/ \E i \in ConnIds : keepAlive_done(i)
  \/ \E i \in ConnIds : keepAlive_signal(i)
  \/ \E i \in ConnIds : keepAlive_connect(i)
  \/ \E i \in ConnIds : keepAlive_resub(i)
  \/ \E i \in ConnIds : keepAlive_ping(i)
  \/ \E t \in Tasks, c \in ReqCodes : OnPairRequested_record(t, c)
  \/ \E t \in Tasks : OnPairRequested_check(t)
  \/ \E t \in Tasks : addSubscription(t)

StreamSpec == Init /\ [][StreamNext]_vars

\* the connection lifecycle with callers of Close in every state
CloseNext ==
  \/ StreamNext
  \/ Close_call

CloseSpec == Init /\ [][CloseNext]_vars

\* requests resolved through getPriceWithCache while the stream connects,
\* delivers quotes and fails
ResolveNext ==
  \/ Main_Connect
  \/ Start_refreshTop10
  \/ Start_subscribeTop10
  \/ PeerDrop
  \/ \E i \in ConnIds : \E m \in Updates(Len(heap) + 1) \cup NonUpdates(Len(heap) + 1) : readPump_message(i, m)
  \/ \E t \in Tasks, c \in ReqCodes : getPriceWithCache_read(t, c)
  \/ \E t \in Tasks, ok \in BOOLEAN : getPriceWithCache_fetch(t, ok)
  \/ \E t \in Tasks : getPriceWithCache_onPair(t)
  \/ \E t \in Tasks : getPriceWithCache_return(t)
  \/ \E t \in Tasks : OnPairRequested_check(t)
  \/ \E t \in Tasks : addSubscription(t)

ResolveSpec == Init /\ [][ResolveNext]_vars

\* the subscription manager over a connection that may fail
SubNext ==
  \/ Main_Connect
  \/ Start_refreshTop10
  \/ Start_subscribeTop10
  \/ PeerDrop
  \/ \E t \in Tasks, c \in ReqCodes : OnPairRequested_record(t, c)
  \/ \E t \in Tasks : OnPairRequested_check(t)
  \/ \E t \in Tasks : addSubscription(t)
  \/ cleanupStalePairs_scan
  \/ \E c \in Codes : cleanupStalePairs_hdel(c)
  \/ cleanupStalePairs_remove
  \/ \E l \in UpdateLists : UpdateTop10_set(l)
  \/ UpdateTop10_subscribe
  \/ \E d \in {StaleThreshold, StaleThreshold + 1} : Tick(d)

SubSpec == Init /\ [][SubNext]_vars

\* the quote cache with a reader, while the connection fails and is
\* re-established, stale pairs are pruned and the protected set is replaced
CacheNext ==
  \/ Main_Connect
  \/ Start_refreshTop10
  \/ Start_subscribeTop10
  \/ PeerDrop
  \/ \E i \in ConnIds : readPump_exit(i)
  \/ \E i \in ConnIds : keepAlive_signal(i)
  \/ \E i \in ConnIds : keepAlive_connect(i)
  \/ \E i \in ConnIds : keepAlive_resub(i)
  \/ \E i \in ConnIds : \E m \in Updates(Len(heap) + 1) \cup NonUpdates(Len(heap) + 1) : readPump_message(i, m)
  \/ \E c \in ReqCodes : GetCached(c)
  \/ toPriceResponse_price
  \/ toPriceResponse_rest
  \/ cleanupStalePairs_scan
  \/ \E c \in Codes : cleanupStalePairs_hdel(c)
  \/ cleanupStalePairs_remove
  \/ UpdateTop10_set(LongList)
  \/ UpdateTop10_subscribe
  \/ Tick(StaleThreshold + 1)

\* nothing is persisted yet, and the ledger holds a pair that will be stale,
\* so that pruning has work
CacheInit == Init /\ ledger # EmptyLedger /\ redisTop10 = <<>>

CacheSpec == CacheInit /\ [][CacheNext]_vars

\* the request tasks with the acquisition of d.mu as a step of its own
LockNext ==
  \/ Main_Connect
  \/ Start_refreshTop10
  \/ Start_subscribeTop10
  \/ PeerDrop
  \/ \E t \in Tasks, c \in ReqCodes : OnPairRequested_record(t, c)
  \/ \E t \in Tasks : OnPairRequested_check(t)
  \/ \E t \in Tasks : addSubscription_Lock(t)
  \/ \E t \in Tasks : addSubscription_locked(t)

LockSpec == Init /\ [][LockNext]_vars

\* the writers of the connection, each write a step that begins and a step
\* that ends: request tasks, keep-alive loops, the re-subscribe after a
\* reconnect
WriteNext ==
  \/ Main_Connect
  \/ Start_refreshTop10
  \/ Start_subscribeTop10
  \/ PeerDrop
  \/ \E i \in ConnIds : readPump_exit(i)
  \/ \E i \in ConnIds : keepAlive_signal(i)
  \/ \E i \in ConnIds : keepAlive_connect(i)
  \/ \E i \in ConnIds : keepAlive_ping_write(i)
  \/ \E i \in ConnIds : keepAlive_resub_write(i)
  \/ \E i \in ConnIds : keepAlive_resub_nowrite(i)
  \/ \E i \in ConnIds : keepAlive_written(i)
  \/ \E t \in Tasks, c \in ReqCodes : OnPairRequested_record(t, c)
  \/ \E t \in Tasks : OnPairRequested_check(t)
  \/ \E t \in Tasks : addSubscription_Lock(t)
  \/ \E t \in Tasks : addSubscription_nowrite(t)
  \/ \E t \in Tasks : doSubscribe_check(t)
  \/ \E t \in Tasks : doSubscribe_write(t)
  \/ \E t \in Tasks : doSubscribe_written(t)

WriteSpec == Init /\ [][WriteNext]_vars

\* one batch request whose items are resolved concurrently
BatchNext ==
  \/ Main_Connect
  \/ Start_refreshTop10
  \/ Start_subscribeTop10
  \/ PeerDrop
  \/ \E p \in BatchPairs : handleBatch_start(p)
  \/ \E t \in Tasks : handleBatch_fetch(t)
  \/ \E t \in Tasks, ok \in BOOLEAN : getPriceWithCache_fetch(t, ok)
  \/ \E t \in Tasks : getPriceWithCache_onPair(t)
  \/ \E t \in Tasks : getPriceWithCache_return(t)
  \/ \E t \in Tasks : OnPairRequested_check(t)
  \/ \E t \in Tasks : addSubscription(t)
  \/ \E t \in Tasks : handleBatch_send(t)
  \/ handleBatch_recv
  \/ handleBatch_respond

BatchSpec == Init /\ [][BatchNext]_vars

\* the goroutines of the connection lifecycle are scheduled fairly; the
\* upstream and the process shutdown are not constrained
FairStreamSpec ==
  /\ StreamSpec
  /\ WF_vars(Main_Connect \/ Start_refreshTop10 \/ Start_subscribeTop10)
  /\ \A i \in ConnIds : WF_vars(readPump_exit(i))
  /\ \A i \in ConnIds :
       WF_vars(keepAlive_done(i) \/ keepAlive_signal(i)
                 \/ keepAlive_connect(i) \/ keepAlive_resub(i))
  /\ \A t \in Tasks : WF_vars(OnPairRequested_check(t) \/ addSubscription(t))

(***************************************************************************)
(* Claims                                                                  *)
(***************************************************************************)
RunningReadPumps == {i \in ConnIds : readPump[i] = "running"}
LiveKeepAlives == {i \in ConnIds : keepAlive[i] \in {"select", "connect", "resub"}}

\* C1: once the re-subscribe after a successful reconnect has been written
\* (and the client is not shut down), every code that was in the subscription
\* set at the disconnect (protected or added on demand) has a subscribe
\* request on the new connection.
C1_ReconnectResubscribesAll ==
  (hist.resub.sent /\ ~done) =>
    hist.resub.before \subseteq sentOn[hist.resub.conn]

\* no read loop runs after the start-up connect, and Close was not called
Disconnected == mainPc # "connect" /\ ~done /\ RunningReadPumps = {}
\* a keep-alive loop is in its reconnect branch, about to call Connect
Attempting == \E i \in ConnIds : keepAlive[i] = "connect"

\* C2: whenever the client is disconnected and not shut down and no connect
\* attempt is under way, a connect attempt is eventually made (or the client
\* is shut down).
C2_EventuallyReconnects ==
  (Disconnected /\ ~Attempting) ~> (Attempting \/ ~Disconnected)

\* C3: at most one read loop and at most one keep-alive loop run at any time.
C3_OneLoopEach ==
  /\ Cardinality(RunningReadPumps) <= 1
  /\ Cardinality(LiveKeepAlives) <= 1

\* C4: no step removes from the subscription set a code that is in the
\* protected set at the moment of the removal.
C4_ProtectedNeverPruned ==
  [][\A c \in subscribed \ subscribed' : c \notin Range(top10)]_vars

\* a pruning run has called removeSubscription for a subscribed, protected
\* code whose ledger entry was stale, and the code is still subscribed
C4_Witness ==
  /\ prune.kept
  /\ prune.cur \in Range(top10)
  /\ prune.cur \in subscribed

\* outcomes of a RecordAccess call that found or made the code subscribed
\* while a connection existed
OkOutcomes == {"sent", "already", "recheck"}

\* at most one subscribe request per on-demand code, and exactly one once a
\* call for it has completed
C5_OneSend ==
  \A c \in Codes :
    /\ c \notin hist.removed => hist.addSends[c] <= 1
    /\ ( /\ c \notin hist.removed /\ c \notin hist.topMarked /\ conn # 0
         /\ \E t \in Tasks : task[t].pc = "done" /\ task[t].code = c
                               /\ task[t].outcome \in OkOutcomes )
       => hist.addSends[c] = 1

\* a call that completes while its code is subscribed changes nothing
C5_NoOpWhenSubscribed ==
  \A t \in Tasks :
    (task[t].pc # "done" /\ task'[t].pc = "done" /\ task[t].code \in subscribed)
      => (subscribed' = subscribed /\ sentOn' = sentOn)

\* C5: with a connection, RecordAccess calls for a code that only RecordAccess
\* ever subscribed (and that was never pruned) caused exactly one subscribe
\* request for it, however the calls interleave; and a call that completes
\* while the code is subscribed writes nothing and leaves the subscription
\* set as it is.
C5_IdempotentSubscribe == []C5_OneSend /\ [][C5_NoOpWhenSubscribed]_vars

\* two calls for the same new code went through addSubscription, and one
\* subscribe request was written
C5_Witness ==
  \E t, u \in Tasks :
    /\ t # u /\ task[t].code = task[u].code
    /\ task[t].pc = "done" /\ task[t].outcome = "sent"
    /\ task[u].pc = "done" /\ task[u].outcome = "recheck"
    /\ hist.addSends[task[t].code] = 1
    /\ task[t].code \notin hist.topMarked

\* C6: a request rejected with 429 (by the global cap or by the rate limit)
\* has incremented no usage counter.
C6_RejectedNotCounted ==
  \A r \in Reqs : req[r].status = "429" => req[r].incs = 0

\* Allow has returned a result (no store error) for request r
Returned(r) == req[r].a \in {"allowed", "limited"}
\* the requests whose Allow incremented the counter of key in second w
CallsIn(key, w) == {r \in Reqs : req[r].key = key /\ req[r].win = w /\ req[r].ord > 0}

\* C7: the n-th Allow call of a key in a one-second window returns
\* allowed = (n <= L) and remaining = max(0, L - n); of the n calls of a window
\* that have all returned, min(n, L) are allowed.
C7_FixedWindow ==
  /\ \A r \in Reqs :
       Returned(r) =>
         /\ (req[r].a = "allowed") = (req[r].ord <= Limit)
         /\ req[r].remaining = Max(0, Limit - req[r].ord)
  /\ \A key \in ClientKeys, w \in 0..MaxSecond :
       (\A r \in CallsIn(key, w) : Returned(r)) =>
         Cardinality({r \in CallsIn(key, w) : req[r].a = "allowed"})
           = IF Cardinality(CallsIn(key, w)) < Limit
             THEN Cardinality(CallsIn(key, w)) ELSE Limit

\* three calls of one key in one second returned (true,1), (true,0), (false,0)
C7_Witness ==
  \E r1, r2, r3 \in Reqs :
    /\ req[r1].key = req[r2].key /\ req[r2].key = req[r3].key
    /\ req[r1].win = req[r2].win /\ req[r2].win = req[r3].win
    /\ req[r1].a = "allowed" /\ req[r1].remaining = 1 /\ req[r1].ord = 1
    /\ req[r2].a = "allowed" /\ req[r2].remaining = 0 /\ req[r2].ord = 2
    /\ req[r3].a = "limited" /\ req[r3].remaining = 0 /\ req[r3].ord = 3

\* C8: Allow is invoked for a request only after the global check of that
\* request has returned allowed.
C8_GlobalCheckFirst ==
  \A r \in Reqs :
    (req[r].pc \in {"allow", "allowed"} \/ req[r].a # "" \/ req[r].ord > 0)
      => req[r].g = "allowed"

\* one request went on to Allow after the global check allowed it, another
\* was rejected by the global check and never reached Allow
C8_Witness ==
  \E r, q \in Reqs :
    /\ req[r].g = "allowed" /\ req[r].a = "allowed"
    /\ req[q].g = "rejected" /\ req[q].status = "429" /\ req[q].a = ""

\* C9: a request whose Allow returned an error is passed to the handler.
C9_AllowErrorFailsOpen ==
  \A r \in Reqs : req[r].a = "err" => req[r].status = "200"

C9_Witness ==
  \E r \in Reqs : req[r].a = "err" /\ req[r].status = "200" /\ req[r].pc = "done"

C11_RemainingNonNegative ==
  /\ \A r \in Reqs : req[r].remaining >= 0 /\ req[r].gRemaining >= 0
  /\ \A k \in DOMAIN store : store[k] >= 0

\* the IncrementUsage calls for a key that have returned
UsageCalls(key) == {r \in Reqs : req[r].key = key /\ req[r].incs = 3}

StaleAtScan == {c \in DOMAIN prune.snap : prune.at - prune.snap[c] > StaleThreshold}

C14_FailedSendRetried ==
  [][\A t \in Tasks :
       (task[t].pc # "done" /\ task'[t].pc = "done"
          /\ task[t].code \notin subscribed /\ conn # 0) =>
         /\ task'[t].outcome \in {"sent", "failed"}
         /\ task'[t].outcome = "failed" =>
              (subscribed' = subscribed /\ sentOn' = sentOn)
         /\ task'[t].outcome = "sent" =>
              (task[t].code \in subscribed' /\ task[t].code \in sentOn'[conn])
         /\ (task'[t].outcome = "sent") = WriteOK
    ]_vars

\* the subscribe request of one call failed, and the next call for the same
\* code (after the reconnect) wrote it again and the code is now subscribed
C14_Witness ==
  \E t, u \in Tasks :
    /\ task[t].code = task[u].code
    /\ task[t].pc = "done" /\ task[t].outcome = "failed"
    /\ task[u].pc = "done" /\ task[u].outcome = "sent"
    /\ task[u].code \in subscribed

\* the client has no connection: it never connected, or the read loop has
\* closed the failed connection (or Close has) and none has replaced it
NotConnected == conn = 0 \/ connStatus[conn] = "closed"

\* C15: while the client is not connected, Subscribe(codes) writes nothing and
\* returns nil.
C15_SubscribeNoOpWhenDisconnected ==
  NotConnected => (doSubscribe(Codes) = sentOn /\ ~doSubscribeErr)

\* C16: Close completes without a fault in whatever state it is called (never
\* connected, connected, connection failed, closed already).
C16_CloseNeverFaults == mainPc # "panic"

\* the read loop and every keep-alive loop have ended
StreamLoopsEnded == RunningReadPumps = {} /\ LiveKeepAlives = {}

\* C17: once shutdown is signalled, the read loop, every keep-alive loop and
\* the pruning loop eventually terminate.
C17_LoopsTerminate == done ~> (StreamLoopsEnded /\ cleanupRoutine_returns)

Resolved == {t \in Tasks : res[t].pc \in {"onpair", "wait", "done"}}

\* C19: getPriceWithCache returns the cached quote with source "ws" exactly
\* when the cache held the code at the read (and then asks the pull API
\* nothing); otherwise "http" when the fetch succeeded and not-found when it
\* failed.
C19_ResolveSource ==
  \A t \in Resolved :
    /\ res[t].source = IF res[t].hit THEN "ws"
                       ELSE IF res[t].fetched = "ok" THEN "http" ELSE ""
    /\ res[t].hit => res[t].fetched = ""
    /\ ~res[t].hit => res[t].fetched \in {"ok", "fail"}

\* one call was answered from the cache; another resolved through the pull
\* API while the stream had never connected or its connection had failed
C19_Witness ==
  \E t, u \in Tasks :
    /\ res[t].pc = "done" /\ res[t].source = "ws" /\ res[t].hit
    /\ res[u].pc = "done" /\ res[u].source = "http" /\ res[u].code \notin DOMAIN cache
    /\ connStatus[conn] # "open"

\* a call that has returned made one OnPairRequested call when it answered
\* from the cache or from the pull API, and none when the fetch failed
C20_CallsPerResult ==
  \A t \in Tasks :
    /\ res[t].calls <= 1
    /\ (res[t].pc \in {"wait", "done"} /\ res[t].source \in {"ws", "http"}) =>
         (res[t].calls = 1 /\ task[t].code = res[t].code)
    /\ (res[t].pc = "done" /\ res[t].source = "") =>
         (res[t].calls = 0 /\ task[t] = IdleTask)

\* the step in which the fetch fails changes neither the ledger nor the
\* subscription set
C20_FailedFetchFrame ==
  \A t \in Tasks :
    (res[t].pc = "fetch" /\ res'[t].fetched = "fail") =>
      (res'[t].pc = "done" /\ ledger' = ledger /\ subscribed' = subscribed
         /\ task' = task)

\* C20: getPriceWithCache calls RecordAccess exactly once on a cache hit and
\* exactly once on a successful fallback fetch; when the fetch fails it calls
\* nothing and leaves the access ledger and the subscription set unchanged.
C20_RecordAccessOnce == []C20_CallsPerResult /\ [][C20_FailedFetchFrame]_vars

\* one call has returned not-found after a failed fetch without touching the
\* ledger, another has recorded its access once after a successful fetch
C20_Witness ==
  \E t, u \in Tasks :
    /\ res[t].pc = "done" /\ res[t].fetched = "fail" /\ res[t].calls = 0
    /\ res[t].code \notin DOMAIN ledger
    /\ res[u].pc = "done" /\ res[u].fetched = "ok" /\ res[u].calls = 1
    /\ res[u].code \in DOMAIN ledger


\* the quotes the read loop has stored, as a reader sees them
Quotes == {heap[k] : k \in 1..Len(heap)}

\* what the reader of GetCached has read of its quote
ReadQuote ==
  [code |-> rd.code, price |-> rd.price, ask |-> rd.ask, bid |-> rd.bid,
   open |-> rd.open]

\* C21: a GetCached(c) that runs concurrently with the read loop's cache
\* write for c hands out one complete quote: the code, price, ask, bid and
\* marketOpen the caller reads all come from the same update, never a mixture
\* of two updates.
C21_NoTornQuote ==
  (rd.pc = "done" /\ rd.ptr # 0) =>
    /\ ReadQuote \in Quotes
    /\ rd.price = rd.ask /\ rd.ask = rd.bid /\ rd.open

\* the reader was handed the quote of the first update, the second update
\* of the same code was stored before it read the fields, and it read the
\* first update whole
C21_Witness ==
  /\ rd.pc = "done" /\ rd.ptr = 1
  /\ Len(heap) = 2 /\ heap[2].code = rd.code /\ cache[rd.code] = 2
  /\ ReadQuote = heap[1]

\* C22: no lock that guards the quote cache, the subscription set or the
\* protected set is held while a network operation is performed: no subscribe
\* request is written to the stream connection while a task holds d.mu.
C22_NoLockAcrossNetwork == [][sentOn' # sentOn => mu = {}]_vars

\* the items of the batch whose fetch returned a quote
BatchSucceeded == {t \in Tasks : res[t].source # ""}

\* C23: the batch response lists the successful results in the order of the
\* requested pairs (item i before item j whenever i < j), each successful item
\* once and no failed item, whatever the order in which the concurrent
\* per-item fetches completed.
C23_BatchOrder ==
  batch.pc = "responded" =>
    /\ \A a, b \in 1..Len(batch.results) :
         a < b => batch.results[a] < batch.results[b]
    /\ Range(batch.results) = BatchSucceeded
    /\ Range(batch.errors) = Tasks \ BatchSucceeded

\* both items succeeded and the second item's result arrived first
C23_Witness ==
  /\ batch.pc = "responded"
  /\ batch.arrival = <<2, 1>>
  /\ batch.results = <<1, 2>>

\* C24: UpdateTop10 called with fewer than ten codes changes nothing: the
\* protected set in memory, the persisted protected list and the subscription
\* set are as before, and no subscribe request is sent.
C24_ShortListIgnored ==
  [][(upd'.short /\ ~upd.short) =>
       /\ UNCHANGED <<top10, redisTop10, subscribed, pairs, sentOn>>
       /\ upd'.pc = "idle"]_vars

\* a list of ten and more had replaced the default protected set, and the
\* call that followed came with a short list
C24_Witness ==
  /\ upd.short /\ upd.pc = "idle"
  /\ top10 = AltTop10 /\ redisTop10 = AltTop10
  /\ "SHIB" \in subscribed

\* Start has completed its refreshTop10
StartRefreshed == mainPc \in {"subscribe", "serving", "closed"}

\* C25: once Start has loaded the protected set it holds exactly ten codes
\* in every reachable state, whatever the persisted list held at startup
\* (absent, shorter than ten, exactly ten) and across every sequence of
\* UpdateTop10 calls with shorter, equal or longer lists.
C25_ProtectedIsTen ==
  StartRefreshed => Len(top10) = TopN

\* the persisted list was too short, the default list was installed and
\* persisted, and a list of eleven was then cut to its first ten
C25_Witness ==
  /\ mainPc = "serving" /\ upd.pc = "idle"
  /\ top10 = AltTop10 /\ redisTop10 = AltTop10
  /\ Range(defaultTop10) \subseteq hist.topMarked

\* the transports the client has dialled and not closed
OpenTransports == {i \in ConnIds : connStatus[i] \in {"open", "broken"}}

\* C26: a WSClient owns at most one open transport at any time: across
\* disconnects and reconnects the previous connection is closed before a new
\* one is opened, and the only transport not closed is the current w.conn.
C26_OneOpenTransport ==
  /\ Cardinality(OpenTransports) <= 1
  /\ OpenTransports \subseteq {conn}

\* the first connection was lost and closed, and the reconnect has opened
\* the second
C26_Witness ==
  /\ conn = 2 /\ connStatus[2] = "open"
  /\ connStatus[1] = "closed"

\* C27: any read or write failure on the connection schedules a reconnect:
\* once a write on the connection has failed (a subscribe request of
\* doSubscribe or a keep-alive ping), a reconnect signal is raised or pending,
\* or a reconnect has been taken up, unless the client was closed.
C27_FailedWriteSchedulesReconnect ==
  hist.failedWrite ~> (~hist.failedWrite \/ reconnect = 1 \/ done)

\* the accepted updates of code c, by their number, and the last of them
UpdatesOf(c) == {k \in 1..Len(heap) : heap[k].code = c}
LastUpdate(c) == CHOOSE k \in UpdatesOf(c) : \A j \in UpdatesOf(c) : j <= k

\* the cache holds, for every code that had an accepted update, the quote
\* of the last one, marked open
CacheIsLatest ==
  /\ DOMAIN cache = {c \in ReqCodes : UpdatesOf(c) # {}}
  /\ \A c \in DOMAIN cache :
       heap[cache[c]] = [code |-> c, price |-> LastUpdate(c), ask |-> LastUpdate(c),
                         bid |-> LastUpdate(c), open |-> TRUE]

\* an entry stays, and changes only in a step that stores an update of its code
CacheEntryKept ==
  \A c \in DOMAIN cache :
    /\ c \in DOMAIN cache'
    /\ heap'[cache'[c]] # heap[cache[c]] =>
         (msg'.code = c /\ readPump_accepts(msg') /\ Len(heap') = Len(heap) + 1)

\* C28: GetCached(c) finds the quote of the most recent valid update received
\* for c (its price, ask and bid, marketOpen true) however long ago it came:
\* entries are not removed or altered by pruning, UpdateTop10, disconnects,
\* reconnects or updates of other codes, and a code once found stays found.
C28_CacheKeepsLatest == []CacheIsLatest /\ [][CacheEntryKept]_vars

\* the quote of SHIB came first; since then an update of LINK was stored, the
\* connection was lost and re-established, the stale pair was pruned and the
\* protected set replaced, a day passed, and the reader still got that quote
C28_Witness ==
  /\ rd.pc = "done" /\ rd.code = "SHIB" /\ rd.ptr = 1 /\ rd.price = 1 /\ rd.open
  /\ Len(heap) = 2 /\ heap[2].code = "LINK"
  /\ conn = 2 /\ connStatus[1] = "closed"
  /\ "DOT" \notin DOMAIN ledger /\ now > StaleThreshold
  /\ top10 = AltTop10

\* the message is a quote update: decoded, with a code and a price
IsQuoteUpdate(m) == m.decodes /\ m.code # "" /\ m.price # 0

\* C29: a received message that cannot be decoded as a quote update, or whose
\* code is empty, or whose price is empty, leaves the quote cache unchanged
\* and neither ends the read loop nor triggers a reconnect.
C29_NonUpdateSkipped ==
  [][(msg' # msg /\ ~IsQuoteUpdate(msg')) =>
       UNCHANGED <<cache, heap, readPump, reconnect, conn, connStatus, keepAlive>>]_vars

\* a quote was cached, then a message with a code and no price was read, and
\* the read loop of the open connection is still running with no reconnect
\* signal raised
C29_Witness ==
  /\ msg.decodes /\ msg.code = "SHIB" /\ msg.price = 0
  /\ Len(heap) = 1 /\ heap[1].code = "SHIB" /\ heap[cache["SHIB"]].price = 1
  /\ conn = 1 /\ connStatus[1] = "open" /\ readPump[1] = "running"
  /\ reconnect = 0

\* no Start and no UpdateTop10 call is in progress
TopQuiescent == mainPc = "serving" /\ upd.pc = "idle"

\* C30: whenever no Start or UpdateTop10 call is in progress (after Start has
\* completed), every member of the current protected set is in the
\* subscription set: for the default seed, for a persisted list, and after
\* every UpdateTop10 with at least ten codes.
C30_ProtectedSubscribed ==
  TopQuiescent => Range(top10) \subseteq subscribed

\* the default set was seeded at Start, an UpdateTop10 with eleven codes has
\* completed, a sweep has pruned the stale pair, and LINK, protected now, is
\* subscribed
C30_Witness ==
  /\ TopQuiescent /\ prune.pc = "idle"
  /\ top10 = AltTop10 /\ "LINK" \in subscribed
  /\ "SHIB" \in hist.topMarked
  /\ "DOT" \notin DOMAIN ledger
  /\ ~upd.short

\* C31: each pair of a batch request is accounted for exactly once, as an
\* entry of results or as an entry of errors (len(results) + len(errors) =
\* len(pairs)); a failed item does not abort the others, and the handler
\* responds only after every per-item task has finished and delivered its
\* result, none left blocked on the channel.
C31_BatchAccounts ==
  batch.pc = "responded" =>
    /\ Len(batch.results) + Len(batch.errors) = Cardinality(DOMAIN batch.pairs)
    /\ Range(batch.results) \cap Range(batch.errors) = {}
    /\ Range(batch.results) \cup Range(batch.errors) = Tasks
    /\ \A t \in Tasks : res[t].pc = "done" /\ t \in batch.sent
    /\ batch.chan = <<>>

\* the first item failed and its error arrived first; the second item was
\* still resolved and is the one result
C31_Witness ==
  /\ batch.pc = "responded"
  /\ batch.arrival = <<1, 2>>
  /\ batch.errors = <<1>> /\ batch.results = <<2>>
  /\ res[2].source = "http"

\* the rate-window keys in the store
RateKeys == {k \in DOMAIN store : k[1] = "ratelimit"}

\* the calls of Allow that made the first increment of k and have not yet
\* come to their EXPIRE
FirstIncrementPending(k) ==
  {r \in Reqs : req[r].pc = "allowed" /\ req[r].count = 1
                 /\ RateKey(req[r].key, req[r].win) = k}

\* C32: every rate-window counter that Allow creates receives an expiry of
\* twice the window length at its first increment (so that the key is removed
\* from the store in time): a rate-window key in the store has an expiry as
\* soon as the Allow that created it has returned.
C32_RateKeysExpire ==
  \A k \in RateKeys : k \in DOMAIN ttl \/ FirstIncrementPending(k) # {}

\* the requests of a key whose Allow has incremented the counter of window w
Incremented(key, w) ==
  {r \in Reqs : req[r].key = key /\ req[r].win = w /\ req[r].ord > 0}

\* C33: a request rejected by the global cap leaves the per-client
\* rate-window counter of its key unchanged: every counter in the store
\* holds one increment per request of its key that passed the global check
\* and called Allow in that window, and none for a request the global cap
\* rejected.
C33_GlobalRejectKeepsBudget ==
  /\ \A r \in Reqs :
       req[r].g = "rejected" => req[r].ord = 0 /\ req[r].count = 0
  /\ \A key \in ClientKeys, w \in 0..MaxSecond :
       RateKey(key, w) \in DOMAIN store =>
         store[RateKey(key, w)] =
           Cardinality({r \in Incremented(key, w) : req[r].g = "allowed"})

\* a request was served, the next one of the same key was rejected by the
\* global cap in the same second, and the key's counter still stands at one
C33_Witness ==
  \E r, q \in Reqs :
    /\ req[r].a = "allowed" /\ req[r].ord = 1 /\ req[r].win = now
    /\ req[q].key = req[r].key /\ req[q].g = "rejected" /\ req[q].pc = "done"
    /\ req[q].status = "429"
    /\ Get(RateKey(req[r].key, now)) = 1

\* C34: after Close has been called no new connection is opened: the
\* keep-alive loop performs no Connect once the shutdown signal is raised,
\* also when a reconnect signal of the terminating read loop is pending.
C34_NoConnectAfterClose ==
  [][done => (conn' = conn /\ \A i \in ConnIds :
                connStatus'[i] = "open" => connStatus[i] = "open")]_vars

\* no Start, RecordAccess, UpdateTop10 or pruning run is in progress
SubQuiescent ==
  /\ mainPc = "serving" /\ upd.pc = "idle" /\ prune.pc = "idle"
  /\ \A t \in Tasks : task[t].pc \in {"idle", "done"}

\* C35: in every quiescent state each code of the subscription set is a
\* member of the current protected set or has an entry in the access ledger,
\* so that staleness pruning can still reach every subscription that is not
\* protected.
C35_SubscribedReachable ==
  SubQuiescent => subscribed \subseteq (Range(top10) \cup DOMAIN ledger)

\* the codes a subscribe request was written for, on any connection
EverSent == UNION {sentOn[i] : i \in ConnIds}

\* C36: a code is marked subscribed only after a subscribe request for it
\* has been sent successfully on the stream connection; no path marks a code
\* without a successful send.
C36_MarkedOnlyAfterSend == subscribed \subseteq EverSent

\* the RecordAccess calls that have completed, found or left their code
\* subscribed, and whose access is within the staleness threshold
FreshAccesses ==
  {t \in Tasks : /\ task[t].pc = "done" /\ task[t].outcome # "failed"
                  /\ now - task[t].at <= StaleThreshold}

\* C37: a pruning run that interleaves with a RecordAccess for the same code
\* never leaves the code unsubscribed or without a ledger entry when the
\* RecordAccess completed within the staleness threshold: once the run has
\* ended, a freshly accessed code is subscribed and has a fresh ledger entry.
C37_FreshAccessSurvivesPrune ==
  prune.pc = "idle" =>
    \A t \in FreshAccesses :
      /\ task[t].code \in subscribed
      /\ task[t].code \in DOMAIN ledger
      /\ ledger[task[t].code] >= task[t].at

\* the tasks inside doSubscribe that have read w.conn for the nil check and
\* will read it again for the write
ConnReaders == {t \in Tasks : task[t].pc = "checked"}

\* C38: at most one task writes to the stream connection at any time
\* (subscribe requests of request tasks, the re-subscribe after a reconnect
\* and the keep-alive pings never write concurrently), and the connection
\* reference is never replaced by Connect while another task is reading it.
C38_SingleWriter ==
  /\ [](\A c \in ConnIds : Cardinality(WritersOn(c)) <= 1)
  /\ [][conn' # conn => ConnReaders = {}]_vars

\* a step of the read loop that stores an accepted update: a new quote
\* object, and the cache entry of its code pointing to it
ReadLoopStores ==
  /\ IsQuoteUpdate(msg')
  /\ heap' = Append(heap, readPump_quote(msg'))
  /\ cache' = HSet(cache, msg'.code, Len(heap'))
  /\ res' = res

\* the results returned from the cache
Hits == {t \in Tasks : res[t].source = "ws"}

\* C39: the quote cache is written only by the read loop: a step of
\* getPriceWithCache (a hit, a successful fallback, a failed fetch) leaves
\* the cache and its quotes unchanged, so a fallback quote is never stored,
\* and a Resolve hits for a code only after the read loop stored a streamed
\* update for it.
C39_OnlyReadLoopWritesCache ==
  /\ [][(cache' # cache \/ heap' # heap) => ReadLoopStores]_vars
  /\ [][res' # res => cache' = cache /\ heap' = heap]_vars
  /\ [](\A t \in Hits : \E k \in UpdatesOf(res[t].code) : heap[k].open)

\* a code was served from the pull API, then an update for it was streamed,
\* and a later Resolve of the same code hit the cache, which holds the
\* streamed quote
C39_Witness ==
  /\ res[1].pc = "done" /\ res[1].source = "http" /\ ~res[1].hit
  /\ res[2].code = res[1].code /\ res[2].source = "ws" /\ res[2].pc = "done"
  /\ cache[res[1].code] = Len(heap)

\* C40: in every reachable state, also between the three increments of one
\* IncrementUsage and with concurrent calls, the usage of the last 24 hours
\* is at most the usage of the last 7 days, which is at most the total usage
\* (all usage lying within the retention of its buckets).
C40_UsageOrdered ==
  \A key \in ClientKeys :
    /\ GetLast24HoursUsage(key) <= GetLast7DaysUsage(key)
    /\ GetLast7DaysUsage(key) <= GetUsage(key)
====
